---- MODULE Spec2Model ----
(***************************************************************************)
(* lichcongtac-admin-api: the POST /admin endpoint (createUser, updateUser, *)
(* deleteUser, password reset) over the Firebase identity provider and the  *)
(* Firestore document store.  The repository holds several entry points    *)
(* that implement the endpoint; `impl` says which one is deployed:          *)
(*   "index"     src/index.js                                               *)
(*   "part_002"  src/unnamed/part_002                                       *)
(*   "part_003"  src/unnamed/part_003                                       *)
(*   "part_004a" src/unnamed/part_004, lines 1-405                          *)
(*   "part_004b" src/unnamed/part_004, lines 407-665                        *)
(* One action handles one request from its arrival to its response.         *)
(***************************************************************************)
EXTENDS Integers, Sequences, FiniteSets, TLC

VARIABLES
    impl,       \* the deployed entry point
    users,      \* Firestore collection users: uid -> profile document
    accounts,   \* identity provider: uid -> account
    claims,     \* identity provider: uid -> custom claims of the account
    schedules,  \* Firestore collection schedules: uid -> number of records with createdBy == uid
    req,        \* the last request handled
    resp,       \* the response sent to it
    pre,        \* the stores as they were when the last request arrived
    deleted,    \* the uids a deleteUser has answered {ok:true} for and that were not allotted since
    nreq,       \* number of requests handled
    stage,      \* "idle", or "running" while the handler of req has not finished
    inflight    \* concurrent handlers that have made their checks and not yet their writes

vars == <<impl, users, accounts, claims, schedules, req, resp, pre, deleted, nreq, stage, inflight>>

(***************************************************************************)
(* Bounds and the finite universe the requests are drawn from.             *)
(***************************************************************************)
MaxRequests == 2
MaxFields == 1

UIDs == {"root", "adm", "mem", "oth", "new"}
Orgs == {"o1", "o2"}
Impls == {"index", "part_002", "part_003", "part_004a", "part_004b"}

\* JavaScript values: undefined, null, and strings.
Absent == "undefined"
Null == "null"
Truthy(v) == v \notin {Absent, Null, ""}
\* a || b
Or(a, b) == IF Truthy(a) THEN a ELSE b
\* a ?? b
Coalesce(a, b) == IF a \in {Absent, Null} THEN b ELSE a
\* String(v): null becomes the four-letter string, which is truthy.
StrNull == "'null'"
String(v) == IF v = Null THEN StrNull ELSE v
\* v.toLowerCase(), on the strings of this universe that hold an upper-case letter.
LowerCase(v) ==
    CASE v = "New@X" -> "new@x"
      [] v = "Root@X" -> "root@x"
      [] v = "SuperAdmin" -> "superadmin"
      [] v = "Admin" -> "admin"
      [] OTHER -> v

(***************************************************************************)
(* Documents.                                                               *)
(***************************************************************************)
NoDoc == [exists |-> FALSE, role |-> Absent, orgId |-> Absent, departmentId |-> Absent,
          email |-> Absent, fullName |-> Absent, password |-> Absent,
          createdAt |-> Absent, updatedAt |-> Absent]
NoFields == [role |-> Absent, orgId |-> Absent, departmentId |-> Absent,
             email |-> Absent, fullName |-> Absent, password |-> Absent,
             createdAt |-> Absent, updatedAt |-> Absent]
NoAccount == [exists |-> FALSE, email |-> Absent, displayName |-> Absent, password |-> Absent]
NoClaims == [role |-> Absent, orgId |-> Absent]
ServerTimestamp == "serverTimestamp"

Doc(role, orgId, departmentId, email, fullName) ==
    [exists |-> TRUE, role |-> role, orgId |-> orgId, departmentId |-> departmentId,
     email |-> email, fullName |-> fullName, password |-> Absent,
     createdAt |-> ServerTimestamp, updatedAt |-> Absent]
\* The provider keeps the email of an account in lower case.
Account(email, displayName, password) ==
    [exists |-> TRUE, email |-> LowerCase(email), displayName |-> displayName, password |-> password]

\* The departments collection (read only by this API).  d1 belongs to o1, d2 to
\* o2, d3 is a record without an orgId of its own, dx has no record.
DeptIds == {"d1", "d2", "d3", "dx"}
Departments ==
    [d \in DeptIds |->
        CASE d = "d1" -> [exists |-> TRUE, id |-> "d1", orgId |-> "o1", organizationId |-> Absent]
          [] d = "d2" -> [exists |-> TRUE, id |-> "d2", orgId |-> "o2", organizationId |-> Absent]
          [] d = "d3" -> [exists |-> TRUE, id |-> "d3", orgId |-> Absent, organizationId |-> Absent]
          [] OTHER    -> [exists |-> FALSE, id |-> Absent, orgId |-> Absent, organizationId |-> Absent]]

\* process.env.SUPER_ADMINS, split, trimmed, lower-cased.
SUPER_ADMIN_EMAILS == {"root@x"}

(***************************************************************************)
(* Stores and results.                                                      *)
(***************************************************************************)
\* fault names the provider call that fails while the request is handled:
\*   "claimsWrite"    auth.setCustomUserClaims throws (the provider is unreachable)
\*   "deleteInternal" auth.deleteUser throws auth/internal-error
\*   "accountGone"    the account was removed out of band: auth.deleteUser
\*                    throws auth/user-not-found
\*   "createInternal" auth.createUser throws auth/internal-error
\*   "profileWrite"   users.doc(uid).set of a createUser is rejected by the store
\*   "batchCommit"    the commit of the last cascade batch is rejected
Faults == {"none", "claimsWrite", "deleteInternal", "accountGone", "createInternal", "batchCommit",
           "profileWrite"}
Stores(u, a, c, sc) == [users |-> u, accounts |-> a, claims |-> c, schedules |-> sc, fault |-> "none"]
Cur == Stores(users, accounts, claims, schedules)
\* The stores as the handler of request r meets them.
Env(s, r) == [s EXCEPT !.fault = r.fault]

\* The outcome of a request: the stores afterwards and the response.  calls
\* lists the mutating provider/store calls issued, in order; batches the sizes
\* of the cascade batches committed.
Out(s, status, uid, calls, batches) ==
    [s |-> s, resp |-> [status |-> status, uid |-> uid, calls |-> calls, batches |-> batches]]
\* An error thrown (or sent) before any mutating call.
Reject(s, status) == Out(s, status, Absent, <<>>, <<>>)
\* In place of a status: the async handler threw outside every try/catch, so
\* the promise it returned to the router is rejected.
Unhandled == -1
\* What the router does with a rejected handler promise depends on the
\* express release installed (the repository pins none): express 4 drops it
\* and no response is ever sent, express 5 passes it to the default error
\* handler, which answers 500.
Outcomes(out) ==
    IF out.resp.status = Unhandled
    THEN {[out EXCEPT !.resp.status = 0], [out EXCEPT !.resp.status = 500]}
    ELSE {out}

(***************************************************************************)
(* firebase-admin: the calls the handlers make.                             *)
(***************************************************************************)
EmailInUse(s, email) == \E u \in UIDs : s.accounts[u].exists /\ s.accounts[u].email = LowerCase(email)
\* The provider's password policy: at least six characters.
WeakPasswords == {"abc"}
\* auth.createUser({email, password, ...}): the code of the error it throws,
\* "" when it returns.  The password is validated before the request is sent.
CreateUserError(s, email, password) ==
    IF password \in WeakPasswords THEN "auth/invalid-password"
    ELSE IF s.fault = "createInternal" THEN "auth/internal-error"
    ELSE IF EmailInUse(s, email) THEN "auth/email-already-exists"
    ELSE ""
\* auth.createUser allots an uid that names no account (and, being random, no document).
FreshUIDs(s) == {u \in UIDs : ~s.accounts[u].exists /\ ~s.users[u].exists}
\* doc.set(fields, {merge: true}): the supplied fields overwrite, the rest stay.
MergeField(old, new) == IF new # Absent THEN new ELSE old
MergeDoc(doc, fields) ==
    [exists |-> TRUE,
     role |-> MergeField(doc.role, fields.role),
     orgId |-> MergeField(doc.orgId, fields.orgId),
     departmentId |-> MergeField(doc.departmentId, fields.departmentId),
     email |-> MergeField(doc.email, fields.email),
     fullName |-> MergeField(doc.fullName, fields.fullName),
     password |-> MergeField(doc.password, fields.password),
     createdAt |-> MergeField(doc.createdAt, fields.createdAt),
     updatedAt |-> MergeField(doc.updatedAt, fields.updatedAt)]
\* A profile write that leaves the role out of the payload.
SetDocWithoutRole(s, uid, fields) == [s EXCEPT !.users[uid] = MergeDoc(@, [fields EXCEPT !.role = Absent])]
SetDoc(s, uid, fields) == [s EXCEPT !.users[uid] = MergeDoc(@, fields)]
DeleteDoc(s, uid) == [s EXCEPT !.users[uid] = NoDoc]
\* auth.updateUser(uid, props): props uses Absent for a property not passed.
UpdateAccount(s, uid, email, displayName, password) ==
    [s EXCEPT !.accounts[uid] =
        [exists |-> TRUE,
         email |-> IF email # Absent THEN LowerCase(email) ELSE @.email,
         displayName |-> IF displayName # Absent THEN displayName ELSE @.displayName,
         password |-> IF password # Absent THEN password ELSE @.password]]
\* auth.setCustomUserClaims(uid, obj) replaces the claims object.
SetClaims(s, uid, role, orgId) == [s EXCEPT !.claims[uid] = [role |-> role, orgId |-> orgId]]
\* auth.deleteUser(uid): the account goes, and its claims with it.
DeleteAccount(s, uid) == [s EXCEPT !.accounts[uid] = NoAccount, !.claims[uid] = NoClaims]
\* db.collection("users").doc(uid).set(...) of a createUser throws.
ProfileWriteFails(s) == s.fault = "profileWrite"
\* auth.setCustomUserClaims(uid, ...) throws.
ClaimsWriteFails(s, uid) == s.fault = "claimsWrite" \/ ~s.accounts[uid].exists
\* auth.deleteUser(uid): the code of the error it throws, "" when it returns.
DeleteUserError(s, uid) ==
    IF s.fault = "deleteInternal" THEN "auth/internal-error"
    ELSE IF s.fault = "accountGone" \/ ~s.accounts[uid].exists THEN "auth/user-not-found"
    ELSE ""
\* The stores after auth.deleteUser(uid) returned or threw.
AfterDeleteUser(s, uid) ==
    IF DeleteUserError(s, uid) = "auth/internal-error" THEN s ELSE DeleteAccount(s, uid)
\* The mutating calls so far, with auth.deleteUser when it took effect.
WithDeleteUser(s, uid, calls) ==
    IF DeleteUserError(s, uid) = "" THEN Append(calls, "auth.deleteUser") ELSE calls

(***************************************************************************)
(* Requests.  data carries every key; Absent stands for a key not sent.     *)
(***************************************************************************)
NoData == [uid |-> Absent, email |-> Absent, password |-> Absent, newPassword |-> Absent,
           fullName |-> Absent, role |-> Absent, orgId |-> Absent, departmentId |-> Absent,
           cascade |-> Absent]
\* token: "ok" a bearer token the provider verifies (caller is its uid), "none"
\* no bearer token in the Authorization header, "bad" a bearer token the
\* provider rejects (expired, malformed, revoked).
Tokens == {"ok", "none", "bad"}
NoReq == [caller |-> Absent, token |-> "none", fault |-> "none", action |-> "none", data |-> NoData]
\* status 0: no response was sent.
NoResp == [status |-> 0, uid |-> Absent, calls |-> <<>>, batches |-> <<>>]
\* The three names of the password reset.
ResetActions == {"setPassword", "resetPassword", "adminResetPassword"}
\* A value of req.body.action that is truthy and not a string (a number).
NotAString == "<number>"


(***************************************************************************)
(* Cascade delete: the sizes of the batches committed for n records.        *)
(***************************************************************************)
BATCH_LIMIT == 400

\* The forEach loop: a full batch is committed as soon as it holds BATCH_LIMIT
\* deletes; the result is the list of full batches and the count left over.
FullBatches(n) == [i \in 1..(n \div BATCH_LIMIT) |-> BATCH_LIMIT]
LeftOver(n) == n % BATCH_LIMIT
\* if (count > 0) commits.push(batch.commit())
BatchesNonEmptyTail(n) == IF LeftOver(n) > 0 THEN Append(FullBatches(n), LeftOver(n)) ELSE FullBatches(n)
\* commits.push(batch.commit()) without the test
BatchesAlwaysTail(n) == Append(FullBatches(n), LeftOver(n))
\* one batch for all records
BatchesSingle(n) == <<n>>
RECURSIVE SumOf(_)
SumOf(seq) == IF seq = <<>> THEN 0 ELSE Head(seq) + SumOf(Tail(seq))
\* batch.commit() of the last batch is rejected; the batches before it commit.
CommitFails(s, batches) == s.fault = "batchCommit" /\ batches # <<>>
Committed(s, batches) ==
    IF CommitFails(s, batches) THEN SubSeq(batches, 1, Len(batches) - 1) ELSE batches
\* The schedule records of uid after the commits: those of the committed
\* batches are gone.
AfterCommits(s, uid, batches) ==
    [s EXCEPT !.schedules[uid] = @ - SumOf(Committed(s, batches))]
CommitCalls(batches) == [i \in 1..Len(batches) |-> "batch.commit"]

(***************************************************************************)
(* src/index.js                                                             *)
(***************************************************************************)
\* verifyBearerIdToken: 0 when it returns the uid of the token, else the status
\* of the error thrown.  The error verifyIdToken throws carries no status,
\* which the route's catch turns into 500.
index_verifyBearerIdToken(s, r) ==
    IF r.token = "none" THEN 401
    ELSE IF r.token = "bad" THEN 500
    ELSE 0

\* getActor: {uid, role, orgId} of the stored profile; 403 without a profile or a role.
index_getActor(s, uid) ==
    LET snap == s.users[uid] IN
    IF ~snap.exists THEN [status |-> 403, uid |-> uid, role |-> Absent, orgId |-> Absent]
    ELSE IF ~Truthy(snap.role) THEN [status |-> 403, uid |-> uid, role |-> Absent, orgId |-> Absent]
    ELSE [status |-> 0, uid |-> uid, role |-> snap.role, orgId |-> snap.orgId]

\* assertOrgScope: TRUE when it returns, FALSE when it throws permission-denied.
index_assertOrgScope(actor, targetOrgId) ==
    \/ actor.role = "superadmin"
    \/ ~(~Truthy(actor.orgId) \/ actor.orgId # targetOrgId)

\* A validator that lets every value through.
acceptAnyValue(v) == TRUE

\* requireString: TRUE when it returns (every non-string is modelled by Absent or Null).
index_requireString(v) == Truthy(v)

\* assertDepartmentBelongsToOrg: 0 when it returns, else the status thrown.
index_assertDepartmentBelongsToOrg(departmentId, orgId) ==
    IF ~Truthy(departmentId) THEN 0
    ELSE LET depDoc == Departments[departmentId]
             depOrg == Or(depDoc.orgId, depDoc.organizationId) IN
         IF ~depDoc.exists THEN 400
         ELSE IF Truthy(depOrg) /\ depOrg # orgId THEN 400
         ELSE 0

index_handleCreateUser(s, actor, data, fresh) ==
    LET departmentId == IF Truthy(data.departmentId) THEN data.departmentId ELSE Null
        s1 == [s EXCEPT !.accounts[fresh] = Account(data.email, data.fullName, data.password)]
        s2 == SetDoc(s1, fresh, [NoFields EXCEPT !.email = data.email, !.fullName = data.fullName,
                                     !.role = data.role, !.orgId = data.orgId,
                                     !.departmentId = departmentId, !.createdAt = ServerTimestamp])
        s3 == SetClaims(s2, fresh, data.role, data.orgId)
    IN
    IF \/ ~index_requireString(data.email) \/ ~index_requireString(data.password)
       \/ ~index_requireString(data.fullName) \/ ~index_requireString(data.role)
       \/ ~index_requireString(data.orgId)
    THEN Reject(s, 400)
    ELSE IF ~index_assertOrgScope(actor, data.orgId) THEN Reject(s, 403)
    ELSE IF data.role = "superadmin" /\ actor.role # "superadmin" THEN Reject(s, 403)
    ELSE IF index_assertDepartmentBelongsToOrg(departmentId, data.orgId) # 0 THEN Reject(s, 400)
    \* auth.createUser throws auth/email-already-exists: an error without a status
    ELSE IF CreateUserError(s, data.email, data.password) # "" THEN Reject(s, 500)
    \* auth.setCustomUserClaims throws after the account and the profile were written
    \* users.doc(uid).set throws after the account was created
    ELSE IF ProfileWriteFails(s) THEN Out(s1, 500, Absent, <<"auth.createUser">>, <<>>)
    ELSE IF ClaimsWriteFails(s2, fresh) THEN Out(s2, 500, Absent, <<"auth.createUser", "users.set">>, <<>>)
    ELSE Out(s3, 200, fresh, <<"auth.createUser", "users.set", "auth.setCustomUserClaims">>, <<>>)

index_handleUpdateUser(s, actor, data) ==
    LET uid == data.uid
        curSnap == s.users[uid]
        curOrgId == curSnap.orgId
        email == data.email
        fullName == data.fullName
        role == data.role
        departmentId == data.departmentId
        password == data.password
        newOrgId == data.orgId
        checkDep == IF Truthy(departmentId) THEN departmentId ELSE Null
        validateOrg == IF newOrgId # Absent THEN newOrgId ELSE curOrgId
        needAuth == Truthy(email) \/ Truthy(fullName) \/ Truthy(password)
        needClaims == role # Absent \/ newOrgId # Absent
        fsUpdate == [NoFields EXCEPT !.email = email, !.fullName = fullName, !.role = role,
                                     !.departmentId = IF departmentId = Absent THEN Absent
                                                      ELSE IF Truthy(departmentId) THEN departmentId
                                                      ELSE Null,
                                     !.orgId = newOrgId]
        needFs == fsUpdate # NoFields
        sA == IF needAuth
              THEN UpdateAccount(s, uid, IF Truthy(email) THEN email ELSE Absent,
                                 IF Truthy(fullName) THEN fullName ELSE Absent,
                                 IF Truthy(password) THEN password ELSE Absent)
              ELSE s
        cA == IF needAuth THEN <<"auth.updateUser">> ELSE <<>>
        sC == IF needClaims
              THEN SetClaims(sA, uid, Coalesce(role, curSnap.role), Coalesce(newOrgId, curOrgId))
              ELSE sA
        cC == IF needClaims THEN Append(cA, "auth.setCustomUserClaims") ELSE cA
        sF == IF needFs THEN SetDoc(sC, uid, fsUpdate) ELSE sC
        cF == IF needFs THEN Append(cC, "users.set") ELSE cC
    IN
    IF ~index_requireString(uid) THEN Reject(s, 400)
    ELSE IF ~curSnap.exists THEN Reject(s, 404)
    ELSE IF ~index_assertOrgScope(actor, curOrgId) THEN Reject(s, 403)
    ELSE IF newOrgId # Absent /\ actor.role # "superadmin" THEN Reject(s, 403)
    ELSE IF newOrgId # Absent /\ ~index_requireString(newOrgId) THEN Reject(s, 400)
    ELSE IF departmentId # Absent /\ index_assertDepartmentBelongsToOrg(checkDep, validateOrg) # 0
         THEN Reject(s, 400)
    \* auth.updateUser throws: no such account, or the email is taken by another account
    ELSE IF needAuth /\ (~s.accounts[uid].exists
                         \/ (Truthy(email) /\ \E u \in UIDs \ {uid} :
                                s.accounts[u].exists /\ s.accounts[u].email = email))
         THEN Reject(s, 500)
    \* auth.setCustomUserClaims throws, before the profile write
    ELSE IF needClaims /\ ClaimsWriteFails(sA, uid) THEN Out(sA, 500, Absent, cA, <<>>)
    ELSE Out(sF, 200, Absent, cF, <<>>)

index_handleDeleteUser(s, actor, data) ==
    LET uid == data.uid
        cascade == Truthy(data.cascade)
        snap == s.users[uid]
        s1 == DeleteDoc(s, uid)
        planned == IF cascade THEN BatchesNonEmptyTail(s.schedules[uid]) ELSE <<>>
        batches == Committed(s, planned)
        s2 == AfterCommits(s1, uid, planned)
        c2 == <<"users.delete">> \o CommitCalls(batches)
    IN
    IF ~index_requireString(uid) THEN Reject(s, 400)
    ELSE IF ~snap.exists THEN Reject(s, 404)
    ELSE IF ~index_assertOrgScope(actor, snap.orgId) THEN Reject(s, 403)
    \* await Promise.all(commits) throws: an error without a status
    ELSE IF CommitFails(s, planned) THEN Out(s2, 500, Absent, c2, batches)
    \* auth.deleteUser is awaited outside any try: whatever it throws
    \* (auth/user-not-found too) is an error without a status
    ELSE IF DeleteUserError(s2, uid) # "" THEN Out(AfterDeleteUser(s2, uid), 500, Absent, c2, batches)
    ELSE Out(DeleteAccount(s2, uid), 200, Absent, Append(c2, "auth.deleteUser"), batches)

\* handleUpdateUser from "Cập nhật Auth nếu cần" on, run on the stores s with
\* the snapshot curSnap that the handler read before its checks.
index_updateUserWrites(s, curSnap, data) ==
    LET uid == data.uid
        email == data.email
        fullName == data.fullName
        role == data.role
        departmentId == data.departmentId
        password == data.password
        newOrgId == data.orgId
        needAuth == Truthy(email) \/ Truthy(fullName) \/ Truthy(password)
        needClaims == role # Absent \/ newOrgId # Absent
        fsUpdate == [NoFields EXCEPT !.email = email, !.fullName = fullName, !.role = role,
                                     !.departmentId = IF departmentId = Absent THEN Absent
                                                      ELSE IF Truthy(departmentId) THEN departmentId
                                                      ELSE Null,
                                     !.orgId = newOrgId]
        needFs == fsUpdate # NoFields
        sA == IF needAuth
              THEN UpdateAccount(s, uid, IF Truthy(email) THEN email ELSE Absent,
                                 IF Truthy(fullName) THEN fullName ELSE Absent,
                                 IF Truthy(password) THEN password ELSE Absent)
              ELSE s
        cA == IF needAuth THEN <<"auth.updateUser">> ELSE <<>>
        sC == IF needClaims
              THEN SetClaims(sA, uid, Coalesce(role, curSnap.role), Coalesce(newOrgId, curSnap.orgId))
              ELSE sA
        cC == IF needClaims THEN Append(cA, "auth.setCustomUserClaims") ELSE cA
        sF == IF needFs THEN SetDoc(sC, uid, fsUpdate) ELSE sC
        cF == IF needFs THEN Append(cC, "users.set") ELSE cC
    IN
    IF needAuth /\ (~s.accounts[uid].exists
                    \/ (Truthy(email) /\ \E u \in UIDs \ {uid} :
                           s.accounts[u].exists /\ s.accounts[u].email = email))
    THEN Reject(s, 500)
    ELSE IF needClaims /\ ClaimsWriteFails(sA, uid) THEN Out(sA, 500, Absent, cA, <<>>)
    ELSE Out(sF, 200, Absent, cF, <<>>)

\* handleDeleteUser from "Xoá Firestore user doc" on, run on the stores s.
index_deleteUserWrites(s, data) ==
    LET uid == data.uid
        cascade == Truthy(data.cascade)
        s1 == DeleteDoc(s, uid)
        planned == IF cascade THEN BatchesNonEmptyTail(s.schedules[uid]) ELSE <<>>
        batches == Committed(s, planned)
        s2 == AfterCommits(s1, uid, planned)
        c2 == <<"users.delete">> \o CommitCalls(batches)
    IN
    IF CommitFails(s, planned) THEN Out(s2, 500, Absent, c2, batches)
    ELSE IF DeleteUserError(s2, uid) # "" THEN Out(AfterDeleteUser(s2, uid), 500, Absent, c2, batches)
    ELSE Out(DeleteAccount(s2, uid), 200, Absent, Append(c2, "auth.deleteUser"), batches)

\* app.post("/admin", ...)
index_postAdmin(s, r, fresh) ==
    IF index_verifyBearerIdToken(s, r) # 0 THEN Reject(s, index_verifyBearerIdToken(s, r))
    ELSE LET actor == index_getActor(s, r.caller) IN
         IF actor.status # 0 THEN Reject(s, actor.status)
         ELSE IF ~Truthy(r.action) THEN Reject(s, 400)
         ELSE IF r.action = "createUser" THEN index_handleCreateUser(s, actor, r.data, fresh)
         ELSE IF r.action = "updateUser" THEN index_handleUpdateUser(s, actor, r.data)
         ELSE IF r.action = "deleteUser" THEN index_handleDeleteUser(s, actor, r.data)
         ELSE Reject(s, 400)


(***************************************************************************)
(* src/unnamed/part_002                                                     *)
(***************************************************************************)
part002_getCallerProfile(s, uid) == s.users[uid]

\* assertAdminFromIdToken: role and orgId from the profile, else from the
\* token's custom claims; 401 without a bearer token, 403 unless admin.
part002_assertAdminFromIdToken(s, r) ==
    IF r.token # "ok"
    \* no bearer token: 401; verifyIdToken throws an error without a status: 500
    THEN [status |-> IF r.token = "none" THEN 401 ELSE 500,
          uid |-> Absent, role |-> Absent, orgId |-> Absent, isSuperadmin |-> FALSE]
    ELSE LET profile == part002_getCallerProfile(s, r.caller)
             decoded == s.claims[r.caller]
             role == Or(profile.role, decoded.role)
             orgId == Or(profile.orgId, decoded.orgId)
             isSuperadmin == role = "superadmin"
             isAdmin == isSuperadmin \/ role = "admin" IN
         [status |-> IF isAdmin THEN 0 ELSE 403, uid |-> r.caller, role |-> role,
          orgId |-> orgId, isSuperadmin |-> isSuperadmin]

\* assertDepartmentBelongsToOrg: "true", "false", or "throws" (a query filter
\* on an undefined value is refused by the store).
part002_assertDepartmentBelongsToOrg(departmentId, orgId) ==
    IF ~Truthy(departmentId) THEN "true"
    ELSE IF orgId = Absent THEN "throws"
    ELSE IF \E d \in DeptIds : /\ Departments[d].exists
                               /\ Departments[d].orgId = orgId
                               /\ Departments[d].id = departmentId
         THEN "true" ELSE "false"

part002_handleCreateUser(s, caller, data, fresh) ==
    LET email == LowerCase(String(data.email))
        s1 == [s EXCEPT !.accounts[fresh] = Account(email, String(data.fullName), String(data.password))]
        \* the claims write is tried before the profile write; its failure is swallowed
        claimsOk == ~ClaimsWriteFails(s1, fresh)
        s2 == IF claimsOk THEN SetClaims(s1, fresh, data.role, data.orgId) ELSE s1
        s3 == SetDoc(s2, fresh, [NoFields EXCEPT !.email = email, !.fullName = String(data.fullName),
                                     !.role = String(data.role), !.orgId = String(data.orgId),
                                     !.departmentId = Or(data.departmentId, Null),
                                     !.createdAt = ServerTimestamp])
        okDept == part002_assertDepartmentBelongsToOrg(data.departmentId, data.orgId)
    IN
    IF \/ ~Truthy(data.email) \/ ~Truthy(data.password) \/ ~Truthy(data.fullName)
       \/ ~Truthy(data.role) \/ ~Truthy(data.orgId)
    THEN Reject(s, 400)
    ELSE IF ~caller.isSuperadmin /\ caller.orgId # data.orgId THEN Reject(s, 403)
    ELSE IF okDept = "throws" THEN Reject(s, 500)
    ELSE IF okDept = "false" THEN Reject(s, 400)
    \* every failure of auth.createUser is answered 409
    ELSE IF CreateUserError(s, email, String(data.password)) # "" THEN Reject(s, 409)
    \* users.doc(uid).set throws after the account (and the claims) were written
    ELSE IF ProfileWriteFails(s)
         THEN Out(s2, 500, Absent,
                  IF claimsOk THEN <<"auth.createUser", "auth.setCustomUserClaims">>
                              ELSE <<"auth.createUser">>, <<>>)
    ELSE Out(s3, 200, fresh,
             IF claimsOk THEN <<"auth.createUser", "auth.setCustomUserClaims", "users.set">>
                         ELSE <<"auth.createUser", "users.set">>, <<>>)

part002_handleUpdateUser(s, caller, data) ==
    LET uid == data.uid
        email == data.email
        fullName == data.fullName
        role == data.role
        departmentId == data.departmentId
        password == data.password
        orgId == data.orgId
        target == part002_getCallerProfile(s, uid)
        targetOrg == Or(target.orgId, Null)
        finalOrgForCheck == Or(orgId, Or(targetOrg, caller.orgId))
        okDept == part002_assertDepartmentBelongsToOrg(departmentId, finalOrgForCheck)
        needAuth == Truthy(email) \/ Truthy(fullName) \/ Truthy(password)
        authEmail == IF Truthy(email) THEN LowerCase(String(email)) ELSE Absent
        sA == IF needAuth
              THEN UpdateAccount(s, uid, authEmail,
                                 IF Truthy(fullName) THEN String(fullName) ELSE Absent,
                                 IF Truthy(password) THEN String(password) ELSE Absent)
              ELSE s
        cA == IF needAuth THEN <<"auth.updateUser">> ELSE <<>>
        needClaims == Truthy(role) \/ Truthy(orgId)
        \* the claims object holds only the keys supplied; a failure is swallowed
        claimsOk == needClaims /\ ~ClaimsWriteFails(sA, uid)
        sC == IF claimsOk
              THEN SetClaims(sA, uid, IF Truthy(role) THEN String(role) ELSE Absent,
                                      IF Truthy(orgId) THEN String(orgId) ELSE Absent)
              ELSE sA
        cC == IF claimsOk THEN Append(cA, "auth.setCustomUserClaims") ELSE cA
        fsUpdate == [NoFields EXCEPT
                        !.email = IF email = Absent THEN Absent ELSE LowerCase(String(email)),
                        !.fullName = IF fullName = Absent THEN Absent ELSE String(fullName),
                        !.role = IF role = Absent THEN Absent ELSE String(role),
                        !.departmentId = IF departmentId = Absent THEN Absent ELSE Or(departmentId, Null),
                        !.orgId = IF orgId = Absent THEN Absent ELSE String(orgId)]
        needFs == fsUpdate # NoFields
        sF == IF needFs THEN SetDoc(sC, uid, fsUpdate) ELSE sC
        cF == IF needFs THEN Append(cC, "users.set") ELSE cC
    IN
    IF ~Truthy(uid) THEN Reject(s, 400)
    ELSE IF Truthy(orgId) /\ ~caller.isSuperadmin THEN Reject(s, 403)
    ELSE IF ~caller.isSuperadmin /\ Truthy(targetOrg) /\ targetOrg # caller.orgId THEN Reject(s, 403)
    ELSE IF departmentId # Absent /\ okDept = "throws" THEN Reject(s, 500)
    ELSE IF departmentId # Absent /\ okDept = "false" THEN Reject(s, 400)
    ELSE IF needAuth /\ (~s.accounts[uid].exists
                         \/ (Truthy(email) /\ \E u \in UIDs \ {uid} :
                                s.accounts[u].exists /\ s.accounts[u].email = authEmail))
         THEN Reject(s, 500)
    ELSE Out(sF, 200, Absent, cF, <<>>)

part002_handleDeleteUser(s, caller, data) ==
    LET uid == data.uid
        cascade == Truthy(data.cascade)
        target == part002_getCallerProfile(s, uid)
        targetOrg == Or(target.orgId, Null)
        s1 == DeleteDoc(s, uid)
        planned == IF cascade THEN BatchesAlwaysTail(s.schedules[uid]) ELSE <<>>
        batches == Committed(s, planned)
        s2 == AfterCommits(s1, uid, planned)
        c2 == <<"users.delete">> \o CommitCalls(batches)
    IN
    IF ~Truthy(uid) THEN Reject(s, 400)
    ELSE IF ~caller.isSuperadmin /\ Truthy(targetOrg) /\ targetOrg # caller.orgId THEN Reject(s, 403)
    \* await Promise.all(commits) throws: an error without a status
    ELSE IF CommitFails(s, planned) THEN Out(s2, 500, Absent, c2, batches)
    \* try { auth.deleteUser } catch { }: whatever it throws is passed over
    ELSE Out(AfterDeleteUser(s2, uid), 200, Absent, WithDeleteUser(s2, uid, c2), batches)

part002_postAdmin(s, r, fresh) ==
    LET caller == part002_assertAdminFromIdToken(s, r) IN
    IF caller.status # 0 THEN Reject(s, caller.status)
    ELSE IF ~Truthy(r.action) THEN Reject(s, 400)
    ELSE IF r.action = "createUser" THEN part002_handleCreateUser(s, caller, r.data, fresh)
    ELSE IF r.action = "updateUser" THEN part002_handleUpdateUser(s, caller, r.data)
    ELSE IF r.action = "deleteUser" THEN part002_handleDeleteUser(s, caller, r.data)
    ELSE Reject(s, 400)

(***************************************************************************)
(* src/unnamed/part_004, first program (lines 1-405)                        *)
(***************************************************************************)
part004a_parseSuperAdmins == SUPER_ADMIN_EMAILS

\* assertAdminFromIdToken: role = profile role, else claim, else superadmin for
\* a bootstrap email; orgId = profile orgId, else claim, else null.
part004a_assertAdminFromIdToken(s, r) ==
    IF r.token # "ok"
    \* no bearer token: 401; verifyIdToken throws an error without a status: 500
    THEN [status |-> IF r.token = "none" THEN 401 ELSE 500,
          uid |-> Absent, email |-> Absent, role |-> Absent, orgId |-> Absent]
    ELSE LET uid == r.caller
             email == LowerCase(Or(s.accounts[uid].email, ""))
             snap == s.users[uid]
             roleFS == IF snap.exists THEN Or(snap.role, Null) ELSE Null
             orgIdFS == IF snap.exists THEN Or(snap.orgId, Null) ELSE Null
             roleClaim == Or(s.claims[uid].role, Null)
             orgClaim == Or(s.claims[uid].orgId, Null)
             isBootstrapSuper == Truthy(email) /\ email \in part004a_parseSuperAdmins
             role == Or(roleFS, Or(roleClaim, IF isBootstrapSuper THEN "superadmin" ELSE Null))
             orgId == Or(orgIdFS, Or(orgClaim, Null)) IN
         [status |-> IF role \in {"admin", "superadmin"} THEN 0 ELSE 403,
          uid |-> uid, email |-> email, role |-> role, orgId |-> orgId]

\* assertDepartmentBelongsToOrg: 0 when it returns, else the status thrown.
part004a_assertDepartmentBelongsToOrg(departmentId, orgId) ==
    IF ~Truthy(departmentId) THEN 0
    ELSE IF ~Departments[departmentId].exists THEN 400
    ELSE IF Departments[departmentId].orgId # orgId THEN 400
    ELSE 0

part004a_getUserDoc(s, uid) == s.users[uid]

part004a_handleCreateUser(s, caller, data, fresh) ==
    LET s1 == [s EXCEPT !.accounts[fresh] = Account(data.email, data.fullName, data.password)]
        s2 == SetDoc(s1, fresh, [NoFields EXCEPT !.email = data.email, !.fullName = data.fullName,
                                     !.role = data.role, !.orgId = data.orgId,
                                     !.departmentId = Or(data.departmentId, Null),
                                     !.createdAt = ServerTimestamp, !.updatedAt = ServerTimestamp])
        s3 == SetClaims(s2, fresh, data.role, data.orgId)
    IN
    IF \/ ~Truthy(data.email) \/ ~Truthy(data.password) \/ ~Truthy(data.fullName)
       \/ ~Truthy(data.role) \/ ~Truthy(data.orgId)
    THEN Reject(s, 400)
    ELSE IF caller.role = "admin" /\ data.role = "superadmin" THEN Reject(s, 403)
    ELSE IF caller.role = "admin" /\ Truthy(caller.orgId) /\ data.orgId # caller.orgId THEN Reject(s, 403)
    ELSE IF Truthy(data.departmentId)
            /\ part004a_assertDepartmentBelongsToOrg(data.departmentId, data.orgId) # 0
         THEN Reject(s, 400)
    \* the catch: auth/email-already-exists 409, auth/invalid-password 400, else 500
    ELSE IF CreateUserError(s, data.email, data.password) = "auth/email-already-exists" THEN Reject(s, 409)
    ELSE IF CreateUserError(s, data.email, data.password) = "auth/invalid-password" THEN Reject(s, 400)
    ELSE IF CreateUserError(s, data.email, data.password) # "" THEN Reject(s, 500)
    \* auth.setCustomUserClaims throws inside the try: answered 500 ("internal")
    \* users.doc(uid).set throws after the account was created
    ELSE IF ProfileWriteFails(s) THEN Out(s1, 500, Absent, <<"auth.createUser">>, <<>>)
    ELSE IF ClaimsWriteFails(s2, fresh) THEN Out(s2, 500, Absent, <<"auth.createUser", "users.set">>, <<>>)
    ELSE Out(s3, 200, fresh, <<"auth.createUser", "users.set", "auth.setCustomUserClaims">>, <<>>)

part004a_handleUpdateUser(s, caller, data) ==
    LET uid == data.uid
        email == data.email
        fullName == data.fullName
        role == data.role
        orgId == data.orgId
        departmentId == data.departmentId
        password == data.password
        target == part004a_getUserDoc(s, uid)
        effectiveOrg == Or(orgId, Or(target.orgId, Or(caller.orgId, Null)))
        needAuth == Truthy(email) \/ Truthy(fullName) \/ Truthy(password)
        sA == IF needAuth
              THEN UpdateAccount(s, uid, IF Truthy(email) THEN email ELSE Absent,
                                 IF Truthy(fullName) THEN fullName ELSE Absent,
                                 IF Truthy(password) THEN password ELSE Absent)
              ELSE s
        cA == IF needAuth THEN <<"auth.updateUser">> ELSE <<>>
        needClaims == Truthy(role) \/ Truthy(orgId)
        \* the claims object holds only the keys supplied
        sC == IF needClaims
              THEN SetClaims(sA, uid, IF Truthy(role) THEN role ELSE Absent,
                                      IF Truthy(orgId) THEN orgId ELSE Absent)
              ELSE sA
        cC == IF needClaims THEN Append(cA, "auth.setCustomUserClaims") ELSE cA
        fsUpdate == [NoFields EXCEPT !.updatedAt = ServerTimestamp, !.email = email,
                                     !.fullName = fullName, !.role = role, !.orgId = orgId,
                                     !.departmentId = IF departmentId = Absent THEN Absent
                                                      ELSE Or(departmentId, Null)]
    IN
    IF ~Truthy(uid) THEN Reject(s, 400)
    ELSE IF ~target.exists THEN Reject(s, 404)
    ELSE IF /\ caller.role = "admin"
            /\ Truthy(target.orgId) /\ Truthy(caller.orgId) /\ target.orgId # caller.orgId
         THEN Reject(s, 403)
    ELSE IF caller.role = "admin" /\ role = "superadmin" THEN Reject(s, 403)
    ELSE IF caller.role = "admin" /\ Truthy(orgId) /\ orgId # caller.orgId THEN Reject(s, 403)
    ELSE IF Truthy(departmentId)
            /\ part004a_assertDepartmentBelongsToOrg(departmentId, effectiveOrg) # 0
         THEN Reject(s, 400)
    ELSE IF needAuth /\ (~s.accounts[uid].exists
                         \/ (Truthy(email) /\ \E u \in UIDs \ {uid} :
                                s.accounts[u].exists /\ s.accounts[u].email = email))
         THEN Reject(s, 500)
    ELSE IF needClaims /\ ClaimsWriteFails(sA, uid) THEN Out(sA, 500, Absent, cA, <<>>)
    ELSE Out(SetDoc(sC, uid, fsUpdate), 200, Absent, Append(cC, "users.set"), <<>>)

part004a_handleDeleteUser(s, caller, data) ==
    LET uid == data.uid
        cascade == Truthy(data.cascade)
        target == part004a_getUserDoc(s, uid)
        s1 == DeleteDoc(s, uid)
        planned == IF cascade THEN BatchesNonEmptyTail(s.schedules[uid]) ELSE <<>>
        batches == Committed(s, planned)
        s2 == AfterCommits(s1, uid, planned)
        c2 == <<"users.delete">> \o CommitCalls(batches)
    IN
    IF ~Truthy(uid) THEN Reject(s, 400)
    ELSE IF ~target.exists THEN Reject(s, 404)
    ELSE IF /\ caller.role = "admin"
            /\ Truthy(caller.orgId) /\ Truthy(target.orgId) /\ caller.orgId # target.orgId
         THEN Reject(s, 403)
    ELSE IF caller.role = "admin" /\ target.role = "superadmin" THEN Reject(s, 403)
    \* await Promise.all(commits) throws
    ELSE IF CommitFails(s, planned) THEN Out(s2, 500, Absent, c2, batches)
    \* auth.deleteUser is awaited outside any try
    ELSE IF DeleteUserError(s2, uid) # "" THEN Out(AfterDeleteUser(s2, uid), 500, Absent, c2, batches)
    ELSE Out(DeleteAccount(s2, uid), 200, Absent, Append(c2, "auth.deleteUser"), batches)

part004a_postAdmin(s, r, fresh) ==
    LET caller == part004a_assertAdminFromIdToken(s, r) IN
    IF caller.status # 0 THEN Reject(s, caller.status)
    ELSE IF ~Truthy(r.action) THEN Reject(s, 400)
    ELSE IF r.action = "createUser" THEN part004a_handleCreateUser(s, caller, r.data, fresh)
    ELSE IF r.action = "updateUser" THEN part004a_handleUpdateUser(s, caller, r.data)
    ELSE IF r.action = "deleteUser" THEN part004a_handleDeleteUser(s, caller, r.data)
    ELSE Reject(s, 400)

(***************************************************************************)
(* src/unnamed/part_003                                                     *)
(***************************************************************************)
\* authMiddleware: 0 when next() is called, else the status sent.
part003_authMiddleware(s, r) == IF r.token # "ok" THEN 401 ELSE 0

\* requireAdmin: req.me, or the status sent.
part003_requireAdmin(s, uid) ==
    LET email == LowerCase(Or(s.accounts[uid].email, ""))
        isSuperByEmail == email \in SUPER_ADMIN_EMAILS
        profile == s.users[uid]
        roleDb == LowerCase(Or(profile.role, ""))
        roleEffective == IF isSuperByEmail THEN "superadmin" ELSE roleDb
        isAdminEffective == roleEffective = "admin" \/ roleEffective = "superadmin" IN
    [status |-> IF isAdminEffective THEN 0 ELSE 403, orgId |-> profile.orgId, email |-> email,
     roleEffective |-> roleEffective, isSuper |-> roleEffective = "superadmin"]

\* data without uid, as a set of document fields (updateUser: {uid, ...rest}).
RestFields(data) ==
    [NoFields EXCEPT !.email = data.email, !.fullName = data.fullName, !.role = data.role,
                     !.orgId = data.orgId, !.departmentId = data.departmentId,
                     !.password = data.password]

part003_createUser(s, me, data, fresh) ==
    LET s1 == [s EXCEPT !.accounts[fresh] = Account(data.email, data.fullName, data.password)]
        s2 == SetDoc(s1, fresh, [NoFields EXCEPT !.email = data.email, !.fullName = data.fullName,
                                     !.role = LowerCase(Or(data.role, "user")), !.orgId = data.orgId,
                                     !.departmentId = Or(data.departmentId, Null),
                                     !.createdAt = ServerTimestamp])
    IN
    IF \/ ~Truthy(data.email) \/ ~Truthy(data.password) \/ ~Truthy(data.fullName)
       \/ ~Truthy(data.role) \/ ~Truthy(data.orgId)
    THEN Reject(s, 400)
    ELSE IF ~me.isSuper /\ (~Truthy(me.orgId) \/ data.orgId # me.orgId) THEN Reject(s, 403)
    \* a throw of auth.createUser reaches the handler's catch
    ELSE IF CreateUserError(s, data.email, data.password) # "" THEN Reject(s, 500)
    \* users.doc(uid).set throws after the account was created: the catch answers 500
    ELSE IF ProfileWriteFails(s) THEN Out(s1, 500, Absent, <<"auth.createUser">>, <<>>)
    ELSE Out(s2, 200, fresh, <<"auth.createUser", "users.set">>, <<>>)

\* The updateUser branch with the profile write moved before the org check.
updateUserWritingFirst(s, me, data) ==
    LET uid == data.uid
        rest == RestFields(data)
    IN
    IF ~Truthy(uid) THEN Reject(s, 400)
    ELSE IF ~me.isSuper /\ Truthy(rest.orgId) /\ (~Truthy(me.orgId) \/ rest.orgId # me.orgId)
         THEN Out(SetDoc(s, uid, rest), 403, Absent, <<"users.set">>, <<>>)
    ELSE Out(SetDoc(s, uid, rest), 200, Absent, <<"users.set">>, <<>>)

part003_updateUser(s, me, data) ==
    LET uid == data.uid
        rest == RestFields(data)
        s1 == SetDoc(s, uid, rest)
        \* try { displayName; email } catch (_) {}: the first throw ends the block
        nameOk == Truthy(rest.fullName) /\ s1.accounts[uid].exists
        s2 == IF nameOk THEN UpdateAccount(s1, uid, Absent, rest.fullName, Absent) ELSE s1
        c2 == IF nameOk THEN <<"users.set", "auth.updateUser">> ELSE <<"users.set">>
        emailOk == /\ Truthy(rest.email)
                   /\ (Truthy(rest.fullName) => nameOk)
                   /\ s1.accounts[uid].exists
                   /\ ~\E u \in UIDs \ {uid} : s1.accounts[u].exists /\ s1.accounts[u].email = rest.email
        s3 == IF emailOk THEN UpdateAccount(s2, uid, rest.email, Absent, Absent) ELSE s2
        c3 == IF emailOk THEN Append(c2, "auth.updateUser") ELSE c2
    IN
    IF ~Truthy(uid) THEN Reject(s, 400)
    ELSE IF ~me.isSuper /\ Truthy(rest.orgId) /\ (~Truthy(me.orgId) \/ rest.orgId # me.orgId)
         THEN Reject(s, 403)
    ELSE Out(s3, 200, Absent, c3, <<>>)

\* The password reset without the branch for a target that has no profile.
resetPasswordOfAnyTarget(s, me, data) ==
    LET uid == data.uid
        pwd == Or(data.password, data.newPassword)
        targetSnap == s.users[uid]
    IN
    IF ~Truthy(uid) \/ ~Truthy(pwd) THEN Reject(s, 400)
    ELSE IF ~me.isSuper /\ targetSnap.exists /\ (~Truthy(me.orgId) \/ targetSnap.orgId # me.orgId)
         THEN Reject(s, 403)
    ELSE IF ~s.accounts[uid].exists THEN Reject(s, 404)
    ELSE Out(UpdateAccount(s, uid, Absent, Absent, pwd), 200, Absent, <<"auth.updateUser">>, <<>>)

part003_resetPassword(s, me, data) ==
    LET uid == data.uid
        pwd == Or(data.password, data.newPassword)
        targetSnap == s.users[uid]
    IN
    IF ~Truthy(uid) \/ ~Truthy(pwd) THEN Reject(s, 400)
    ELSE IF ~me.isSuper /\ targetSnap.exists /\ (~Truthy(me.orgId) \/ targetSnap.orgId # me.orgId)
         THEN Reject(s, 403)
    ELSE IF ~me.isSuper /\ ~targetSnap.exists THEN Reject(s, 403)
    \* auth/user-not-found
    ELSE IF ~s.accounts[uid].exists THEN Reject(s, 404)
    ELSE Out(UpdateAccount(s, uid, Absent, Absent, pwd), 200, Absent, <<"auth.updateUser">>, <<>>)

part003_deleteUser(s, me, data) ==
    LET uid == data.uid
        cascade == Truthy(data.cascade)
        s1 == DeleteDoc(s, uid)
        \* try { auth.deleteUser } catch (_) {}: whatever it throws is passed over
        s2 == AfterDeleteUser(s1, uid)
        c2 == WithDeleteUser(s1, uid, <<"users.delete">>)
        planned == IF cascade THEN BatchesSingle(s.schedules[uid]) ELSE <<>>
        batches == Committed(s, planned)
        s3 == AfterCommits(s2, uid, planned)
    IN
    IF ~Truthy(uid) THEN Reject(s, 400)
    \* await batch.commit() throws inside the handler's try: its catch answers 500
    ELSE Out(s3, IF CommitFails(s, planned) THEN 500 ELSE 200, Absent,
             c2 \o CommitCalls(batches), batches)

\* app.post("/admin", authMiddleware, requireAdmin, adminHandler)
part003_adminHandler(s, r, fresh) ==
    IF part003_authMiddleware(s, r) # 0 THEN Reject(s, part003_authMiddleware(s, r))
    ELSE LET me == part003_requireAdmin(s, r.caller)
             action == Or(r.action, "") IN
         IF me.status # 0 THEN Reject(s, me.status)
         \* (... || "").trim() stands before the try: on a value that is not a
         \* string it throws, and the promise of the handler is rejected
         ELSE IF action = NotAString THEN Reject(s, Unhandled)
         ELSE IF action = "createUser" THEN part003_createUser(s, me, r.data, fresh)
         ELSE IF action = "updateUser" THEN part003_updateUser(s, me, r.data)
         ELSE IF action \in ResetActions
              THEN part003_resetPassword(s, me, r.data)
         ELSE IF action = "deleteUser" THEN part003_deleteUser(s, me, r.data)
         ELSE Reject(s, 400)

(***************************************************************************)
(* src/unnamed/part_004, second program (lines 407-665)                     *)
(***************************************************************************)
part004b_isSuperEmail(email) == LowerCase(Or(email, "")) \in SUPER_ADMIN_EMAILS

\* isTargetSuperadmin: by the stored role, or by the account's email.
part004b_isTargetSuperadmin(s, uid) ==
    LET email == IF s.accounts[uid].exists THEN LowerCase(Or(s.accounts[uid].email, "")) ELSE ""
        role == LowerCase(Or(s.users[uid].role, "")) IN
    role = "superadmin" \/ part004b_isSuperEmail(email)

part004b_authMiddleware(s, r) == IF r.token # "ok" THEN 401 ELSE 0

part004b_requireAdmin(s, uid) ==
    LET profile == s.users[uid]
        role == LowerCase(String(Or(profile.role, "")))
        email == LowerCase(String(Or(s.accounts[uid].email, "")))
        isSuper == role = "superadmin" \/ part004b_isSuperEmail(email)
        isAdmin == isSuper \/ role = "admin" IN
    [status |-> IF isAdmin THEN 0 ELSE 403, orgId |-> profile.orgId, email |-> email,
     role |-> role, isSuper |-> isSuper]

part004b_createUser(s, me, data, fresh) ==
    LET s1 == [s EXCEPT !.accounts[fresh] = Account(data.email, data.fullName, data.password)]
        s2 == SetDoc(s1, fresh, [NoFields EXCEPT !.email = LowerCase(Or(data.email, "")),
                                     !.fullName = data.fullName,
                                     !.role = LowerCase(String(Or(data.role, "user"))),
                                     !.orgId = data.orgId,
                                     !.departmentId = Or(data.departmentId, Null),
                                     !.createdAt = ServerTimestamp])
    IN
    IF \/ ~Truthy(data.email) \/ ~Truthy(data.password) \/ ~Truthy(data.fullName)
       \/ ~Truthy(data.role) \/ ~Truthy(data.orgId)
    THEN Reject(s, 400)
    ELSE IF ~me.isSuper /\ (~Truthy(me.orgId) \/ data.orgId # me.orgId) THEN Reject(s, 403)
    ELSE IF ~me.isSuper /\ (LowerCase(String(data.role)) = "superadmin" \/ part004b_isSuperEmail(data.email))
         THEN Reject(s, 403)
    ELSE IF CreateUserError(s, data.email, data.password) # "" THEN Reject(s, 500)
    \* users.doc(uid).set throws after the account was created: the catch answers 500
    ELSE IF ProfileWriteFails(s) THEN Out(s1, 500, Absent, <<"auth.createUser">>, <<>>)
    ELSE Out(s2, 200, fresh, <<"auth.createUser", "users.set">>, <<>>)

part004b_updateUser(s, me, data) ==
    LET uid == data.uid
        rest == RestFields(data)
        s1 == SetDoc(s, uid, rest)
        \* one auth.updateUser for displayName and email, in try/catch
        needAuth == Truthy(rest.fullName) \/ Truthy(rest.email)
        authOk == /\ needAuth
                  /\ s1.accounts[uid].exists
                  /\ ~(Truthy(rest.email) /\ \E u \in UIDs \ {uid} :
                          s1.accounts[u].exists /\ s1.accounts[u].email = rest.email)
        s2 == IF authOk
              THEN UpdateAccount(s1, uid, IF Truthy(rest.email) THEN rest.email ELSE Absent,
                                 IF Truthy(rest.fullName) THEN rest.fullName ELSE Absent, Absent)
              ELSE s1
        c2 == IF authOk THEN <<"users.set", "auth.updateUser">> ELSE <<"users.set">>
    IN
    IF ~Truthy(uid) THEN Reject(s, 400)
    ELSE IF ~me.isSuper /\ part004b_isTargetSuperadmin(s, uid) THEN Reject(s, 403)
    ELSE IF ~me.isSuper /\ Truthy(rest.role) /\ LowerCase(String(rest.role)) = "superadmin"
         THEN Reject(s, 403)
    ELSE IF ~me.isSuper /\ Truthy(rest.email) /\ part004b_isSuperEmail(rest.email) THEN Reject(s, 403)
    ELSE IF ~me.isSuper /\ Truthy(rest.orgId) /\ (~Truthy(me.orgId) \/ rest.orgId # me.orgId)
         THEN Reject(s, 403)
    ELSE Out(s2, 200, Absent, c2, <<>>)

part004b_resetPassword(s, me, data) ==
    LET uid == data.uid
        pwd == Or(data.password, data.newPassword)
        targetSnap == s.users[uid]
    IN
    IF ~Truthy(uid) \/ ~Truthy(pwd) THEN Reject(s, 400)
    ELSE IF ~me.isSuper /\ part004b_isTargetSuperadmin(s, uid) THEN Reject(s, 403)
    ELSE IF ~me.isSuper /\ ~targetSnap.exists THEN Reject(s, 403)
    ELSE IF ~me.isSuper /\ (~Truthy(me.orgId) \/ targetSnap.orgId # me.orgId) THEN Reject(s, 403)
    \* the error's message does not hold the code auth/user-not-found
    ELSE IF ~s.accounts[uid].exists THEN Reject(s, 500)
    ELSE Out(UpdateAccount(s, uid, Absent, Absent, pwd), 200, Absent, <<"auth.updateUser">>, <<>>)

part004b_deleteUser(s, me, data) ==
    LET uid == data.uid
        cascade == Truthy(data.cascade)
        s1 == DeleteDoc(s, uid)
        \* try { auth.deleteUser } catch (_) {}: whatever it throws is passed over
        s2 == AfterDeleteUser(s1, uid)
        c2 == WithDeleteUser(s1, uid, <<"users.delete">>)
        planned == IF cascade THEN BatchesSingle(s.schedules[uid]) ELSE <<>>
        batches == Committed(s, planned)
        s3 == AfterCommits(s2, uid, planned)
    IN
    IF ~Truthy(uid) THEN Reject(s, 400)
    ELSE IF ~me.isSuper /\ part004b_isTargetSuperadmin(s, uid) THEN Reject(s, 403)
    \* await batch.commit() throws inside the handler's try: its catch answers 500
    ELSE Out(s3, IF CommitFails(s, planned) THEN 500 ELSE 200, Absent,
             c2 \o CommitCalls(batches), batches)

part004b_adminHandler(s, r, fresh) ==
    IF part004b_authMiddleware(s, r) # 0 THEN Reject(s, part004b_authMiddleware(s, r))
    ELSE LET me == part004b_requireAdmin(s, r.caller)
             action == Or(r.action, "") IN
         IF me.status # 0 THEN Reject(s, me.status)
         \* (... || "").trim() stands before the try: on a value that is not a
         \* string it throws, and the promise of the handler is rejected
         ELSE IF action = NotAString THEN Reject(s, Unhandled)
         ELSE IF action = "createUser" THEN part004b_createUser(s, me, r.data, fresh)
         ELSE IF action = "updateUser" THEN part004b_updateUser(s, me, r.data)
         ELSE IF action \in ResetActions
              THEN part004b_resetPassword(s, me, r.data)
         ELSE IF action = "deleteUser" THEN part004b_deleteUser(s, me, r.data)
         ELSE Reject(s, 400)

(***************************************************************************)
(* The requests the environment sends.                                      *)
(***************************************************************************)
\* A verified token names an account of the provider.
Callers(s) == {u \in UIDs : s.accounts[u].exists}

CreateData ==
    {[NoData EXCEPT !.email = "new@x", !.password = "secret1", !.fullName = "New",
                    !.role = ro, !.orgId = o, !.departmentId = d] :
        ro \in {"member", "superadmin"}, o \in Orgs, d \in {Absent} \cup DeptIds}

\* createUser with an email that holds upper-case letters.
MixedCaseCreateData ==
    {[NoData EXCEPT !.email = "New@X", !.password = "secret1", !.fullName = "New",
                    !.role = "member", !.orgId = o] : o \in Orgs}

NumPresent(d) == Cardinality({k \in {"role", "orgId", "departmentId", "fullName"} : d[k] # Absent})
UpdateData ==
    {d \in {[NoData EXCEPT !.uid = u, !.role = ro, !.orgId = o, !.departmentId = dp, !.fullName = n] :
                u \in UIDs, ro \in {Absent, "admin", "superadmin"}, o \in {Absent} \cup Orgs,
                dp \in {Absent} \cup DeptIds, n \in {Absent, "B"}} :
        NumPresent(d) <= MaxFields}

\* updateUser with a key that is supplied with a falsy value: fullName null or
\* the empty string, email null.
FalsyUpdateData ==
    {[NoData EXCEPT !.uid = u, !.fullName = v] : u \in {"mem", "oth"}, v \in {Null, ""}}
    \cup {[NoData EXCEPT !.uid = "mem", !.email = Null]}

DeleteData == {[NoData EXCEPT !.uid = u, !.cascade = c] : u \in UIDs, c \in {Absent, "true"}}

ResetData == {[NoData EXCEPT !.uid = u, !.password = "secret2"] : u \in UIDs}

\* createUser with one of the required fields not sent.
RequiredFields == {"email", "password", "fullName", "role", "orgId"}
IncompleteCreateData ==
    {[[NoData EXCEPT !.email = "new@x", !.password = "secret1", !.fullName = "New",
                     !.role = "member", !.orgId = o] EXCEPT ![k] = Absent] :
        o \in Orgs, k \in RequiredFields}

\* createUser with a password the provider's policy refuses.
WeakPasswordCreateData ==
    {[NoData EXCEPT !.email = "new@x", !.password = "abc", !.fullName = "New",
                    !.role = "member", !.orgId = o] : o \in Orgs}

\* The provider faults a request may meet: on the calls its action makes, and
\* on the requests of the two administrators.
FaultsFor(c, a, d) ==
    IF c \notin {"root", "adm"} THEN {"none"}
    ELSE IF a = "createUser" /\ d.departmentId = Absent /\ d.role = "member" /\ d.email = "new@x"
         THEN {"none", "claimsWrite", "createInternal", "profileWrite"}
    ELSE IF a = "createUser" THEN {"none", "claimsWrite"}
    ELSE IF a = "updateUser" /\ (d.role # Absent \/ d.orgId # Absent) THEN {"none", "claimsWrite"}
    ELSE IF a = "deleteUser" /\ d.cascade = Absent THEN {"none", "deleteInternal", "accountGone"}
    ELSE IF a = "deleteUser" THEN {"none", "batchCommit"}
    ELSE {"none"}

Request(c, tok, f, a, d) == [caller |-> c, token |-> tok, fault |-> f, action |-> a, data |-> d]

\* Requests the provider authenticates.
AuthenticRequests(s) ==
    {r \in {Request(c, "ok", f, "createUser", d) :
                c \in Callers(s), f \in Faults, d \in CreateData \cup MixedCaseCreateData \cup IncompleteCreateData
                                                  \cup WeakPasswordCreateData} :
        r.fault \in FaultsFor(r.caller, r.action, r.data)}
    \cup {r \in {Request(c, "ok", f, "updateUser", d) : c \in Callers(s), f \in Faults,
                                                       d \in UpdateData \cup FalsyUpdateData} :
        r.fault \in FaultsFor(r.caller, r.action, r.data)}
    \cup {r \in {Request(c, "ok", f, "deleteUser", d) : c \in Callers(s), f \in Faults, d \in DeleteData} :
        r.fault \in FaultsFor(r.caller, r.action, r.data)}
    \cup {Request(c, "ok", "none", a, d) : c \in Callers(s), a \in ResetActions, d \in ResetData}
    \cup {Request(c, "ok", "none", NotAString, NoData) : c \in Callers(s)}

\* Requests without a bearer token, or with one the provider rejects.
UnauthenticRequests ==
    {Request(Absent, tok, "none", "deleteUser", [NoData EXCEPT !.uid = "mem"]) : tok \in Tokens \ {"ok"}}
    \cup {Request(Absent, tok, "none", "createUser", d) :
            tok \in Tokens \ {"ok"},
            d \in {[NoData EXCEPT !.email = "new@x", !.password = "secret1", !.fullName = "New",
                                   !.role = "member", !.orgId = "o1"]}}

Requests(s) == AuthenticRequests(s) \cup UnauthenticRequests

(***************************************************************************)
(* The initial stores: a superadmin, an admin and a member of o1, a member  *)
(* of o2.  The admin, and the member of o2, may lack an orgId.              *)
(***************************************************************************)
InitUsers(admOrg, othOrg) ==
    [u \in UIDs |->
        CASE u = "root" -> Doc("superadmin", "o1", Null, "root@x", "Root")
          [] u = "adm"  -> Doc("admin", admOrg, Null, "adm@x", "Adm")
          [] u = "mem"  -> Doc("member", "o1", "d1", "mem@x", "Mem")
          [] u = "oth"  -> Doc("member", othOrg, IF othOrg = "o2" THEN "d2" ELSE Null, "oth@x", "Oth")
          [] OTHER      -> NoDoc]

InitStores ==
    /\ \E admOrg \in {"o1", Absent}, othOrg \in {"o2", Absent} : users = InitUsers(admOrg, othOrg)
    /\ accounts = [u \in UIDs |-> IF users[u].exists
                                  THEN Account(users[u].email, users[u].fullName, "secret0")
                                  ELSE NoAccount]
    /\ claims = [u \in UIDs |-> IF users[u].exists
                                THEN [role |-> users[u].role, orgId |-> users[u].orgId]
                                ELSE NoClaims]
    /\ schedules = [u \in UIDs |-> CASE u = "mem" -> 900 [] u = "oth" -> 400 [] OTHER -> 0]
    /\ req = NoReq
    /\ resp = NoResp
    /\ pre = Cur
    /\ deleted = {}
    /\ nreq = 0
    /\ stage = "idle"
    /\ inflight = {}

Init == impl \in Impls /\ InitStores

\* The request r is handled to its end with the outcome `handled`: the stores
\* and the response are as the handler left them.
Finish(r, handled) ==
  \E out \in Outcomes(handled) :
    /\ req' = r
    /\ resp' = out.resp
    /\ users' = out.s.users
    /\ accounts' = out.s.accounts
    /\ claims' = out.s.claims
    /\ schedules' = out.s.schedules
    /\ deleted' = IF r.action = "deleteUser" /\ out.resp.status = 200
                  THEN deleted \cup {r.data.uid}
                  ELSE IF r.action = "createUser" /\ out.resp.status = 200
                  THEN deleted \ {out.resp.uid}
                  ELSE deleted
    /\ nreq' = nreq + 1
    /\ UNCHANGED impl

\* One request, handled from arrival to response in one step.
Handle(r, handled) ==
    /\ stage = "idle"
    /\ pre' = Cur
    /\ Finish(r, handled)
    /\ UNCHANGED <<stage, inflight>>

\* The uid auth.createUser would allot.
FreshFor(s) == IF FreshUIDs(s) = {} THEN {Absent} ELSE FreshUIDs(s)

index_PostAdmin ==
    /\ impl = "index"
    /\ nreq < MaxRequests
    /\ \E r \in Requests(Cur), fresh \in FreshFor(Cur) :
          /\ r.action = "createUser" => fresh # Absent
          /\ Handle(r, index_postAdmin(Env(Cur, r), r, fresh))

part002_PostAdmin ==
    /\ impl = "part_002"
    /\ nreq < MaxRequests
    /\ \E r \in Requests(Cur), fresh \in FreshFor(Cur) :
          /\ r.action = "createUser" => fresh # Absent
          /\ Handle(r, part002_postAdmin(Env(Cur, r), r, fresh))

part003_PostAdmin ==
    /\ impl = "part_003"
    /\ nreq < MaxRequests
    /\ \E r \in Requests(Cur), fresh \in FreshFor(Cur) :
          /\ r.action = "createUser" => fresh # Absent
          /\ Handle(r, part003_adminHandler(Env(Cur, r), r, fresh))

part004a_PostAdmin ==
    /\ impl = "part_004a"
    /\ nreq < MaxRequests
    /\ \E r \in Requests(Cur), fresh \in FreshFor(Cur) :
          /\ r.action = "createUser" => fresh # Absent
          /\ Handle(r, part004a_postAdmin(Env(Cur, r), r, fresh))

part004b_PostAdmin ==
    /\ impl = "part_004b"
    /\ nreq < MaxRequests
    /\ \E r \in Requests(Cur), fresh \in FreshFor(Cur) :
          /\ r.action = "createUser" => fresh # Absent
          /\ Handle(r, part004b_adminHandler(Env(Cur, r), r, fresh))

Next ==
    \/ index_PostAdmin
    \/ part002_PostAdmin
    \/ part003_PostAdmin
    \/ part004a_PostAdmin
    \/ part004b_PostAdmin

Spec == Init /\ [][Next]_vars

(***************************************************************************)
(* The same endpoint with a request in flight: a request arrives, then its  *)
(* handler runs to its end.                                                 *)
(***************************************************************************)
PostAdmin(i, s, r, fresh) ==
    CASE i = "index" -> index_postAdmin(s, r, fresh)
      [] i = "part_002" -> part002_postAdmin(s, r, fresh)
      [] i = "part_003" -> part003_adminHandler(s, r, fresh)
      [] i = "part_004a" -> part004a_postAdmin(s, r, fresh)
      [] i = "part_004b" -> part004b_adminHandler(s, r, fresh)

\* The requests of the in-flight specifications: every action, token and
\* fault, on one target and without the optional fields.
InFlightRequests(s) ==
    {r \in Requests(s) : /\ r.data.uid \in {Absent, "mem"}
                         /\ r.data.departmentId = Absent
                         /\ r.data.orgId \in {Absent, "o1"}
                         /\ r.data.cascade = Absent}

Arrive ==
    /\ stage = "idle"
    /\ nreq < MaxRequests
    /\ \E r \in InFlightRequests(Cur) :
          /\ r.action = "createUser" => FreshUIDs(Cur) # {}
          /\ req' = r
    /\ resp' = NoResp
    /\ pre' = Cur
    /\ stage' = "running"
    /\ UNCHANGED <<impl, users, accounts, claims, schedules, deleted, nreq, inflight>>

Run ==
    /\ stage = "running"
    /\ \E fresh \in FreshFor(Cur) :
          /\ req.action = "createUser" => fresh # Absent
          /\ Finish(req, PostAdmin(impl, Env(Cur, req), req, fresh))
    /\ pre' = pre
    /\ stage' = "idle"
    /\ UNCHANGED inflight


(***************************************************************************)
(* src/index.js with handlers running concurrently.  A handler awaits its   *)
(* reads (token, actor, target profile, department), makes its checks, and  *)
(* then awaits its writes; the handler of another request may run between   *)
(* the two.                                                                 *)
(***************************************************************************)
\* The statuses of the errors decided before anything is executed.
EarlyErrors == {400, 401, 403, 404}

\* updateUser and deleteUser on one target, by the admin and the superadmin.
ConcurrentRequests(s) ==
    {r \in AuthenticRequests(s) : /\ r.action \in {"updateUser", "deleteUser"}
                                  /\ r.data.uid = "mem"
                                  /\ r.caller \in {"root", "adm"}
                                  /\ r.fault = "none"
                                  /\ r.data.cascade = Absent}

\* The handler of a new request reads and checks; refused, it answers at once.
index_Check ==
    /\ impl = "index"
    /\ stage = "idle"
    /\ nreq + Cardinality(inflight) < MaxRequests
    /\ \E r \in ConcurrentRequests(Cur) :
          LET checked == index_postAdmin(Env(Cur, r), r, Absent) IN
          IF checked.resp.status \in EarlyErrors
          THEN /\ pre' = Cur
               /\ Finish(r, checked)
               /\ UNCHANGED <<stage, inflight>>
          ELSE /\ [r |-> r, actor |-> index_getActor(Cur, r.caller),
                   curSnap |-> users[r.data.uid]] \notin inflight
               /\ inflight' = inflight \cup {[r |-> r, actor |-> index_getActor(Cur, r.caller),
                                               curSnap |-> users[r.data.uid]]}
               /\ UNCHANGED <<impl, users, accounts, claims, schedules, req, resp, pre,
                              deleted, nreq, stage>>

\* A handler that has made its checks makes its writes and answers.
index_Write ==
    /\ impl = "index"
    /\ \E f \in inflight :
          /\ pre' = Cur
          /\ Finish(f.r, IF f.r.action = "updateUser"
                         THEN index_updateUserWrites(Env(Cur, f.r), f.curSnap, f.r.data)
                         ELSE index_deleteUserWrites(Env(Cur, f.r), f.r.data))
          /\ inflight' = inflight \ {f}
          /\ UNCHANGED stage

\* One entry point at a time.
InitIndex == impl = "index" /\ InitStores
InitPart002 == impl = "part_002" /\ InitStores
InitPart003 == impl = "part_003" /\ InitStores
InitPart004a == impl = "part_004a" /\ InitStores
InitPart004b == impl = "part_004b" /\ InitStores
SpecIndex == InitIndex /\ [][index_PostAdmin]_vars
SpecPart002 == InitPart002 /\ [][part002_PostAdmin]_vars
SpecPart003 == InitPart003 /\ [][part003_PostAdmin]_vars
SpecPart004a == InitPart004a /\ [][part004a_PostAdmin]_vars
SpecPart004b == InitPart004b /\ [][part004b_PostAdmin]_vars
\* src/index.js or src/unnamed/part_003.
InitIndexPart003 == impl \in {"index", "part_003"} /\ InitStores
SpecIndexPart003 == InitIndexPart003 /\ [][index_PostAdmin \/ part003_PostAdmin]_vars
\* The two entry points that offer the password reset.
InitPart003Part004b == impl \in {"part_003", "part_004b"} /\ InitStores
SpecPart003Part004b == InitPart003Part004b /\ [][part003_PostAdmin \/ part004b_PostAdmin]_vars
SpecIndexConcurrent == InitIndex /\ [][index_Check \/ index_Write]_vars
\* The router runs a handler it has started: weak fairness of Run.
SpecPart003InFlight == InitPart003 /\ [][Arrive \/ Run]_vars /\ WF_vars(Run)
SpecIndexInFlight == InitIndex /\ [][Arrive \/ Run]_vars /\ WF_vars(Run)

(***************************************************************************)
(* What the properties speak of: the last request, its caller and target as *)
(* the stores held them when the request arrived.                           *)
(***************************************************************************)
\* A request was handled to its end (whoever sent it).
Finished == req.action # "none" /\ stage = "idle"
\* A request whose token the provider verified was handled to its end.
Handled == Finished /\ req.token = "ok"
CallerDoc == pre.users[req.caller]
\* The caller is superadmin (admin or superadmin) by some path of role
\* resolution: stored profile, custom claim, or bootstrap email.
CallerSuper ==
    \/ CallerDoc.role = "superadmin"
    \/ pre.claims[req.caller].role = "superadmin"
    \/ pre.accounts[req.caller].email \in SUPER_ADMIN_EMAILS
CallerPrivileged ==
    \/ CallerSuper
    \/ CallerDoc.role = "admin"
    \/ pre.claims[req.caller].role = "admin"
CallerOrg == Or(CallerDoc.orgId, pre.claims[req.caller].orgId)
TargetDoc == pre.users[req.data.uid]
TargetSuper ==
    \/ TargetDoc.role = "superadmin"
    \/ (pre.accounts[req.data.uid].exists /\ pre.accounts[req.data.uid].email \in SUPER_ADMIN_EMAILS)
\* The stores are as the request found them, and no mutating call was issued.
NoEffect == Cur = pre /\ resp.calls = <<>>
TargetUntouched ==
    /\ users[req.data.uid] = pre.users[req.data.uid]
    /\ accounts[req.data.uid] = pre.accounts[req.data.uid]
    /\ claims[req.data.uid] = pre.claims[req.data.uid]
\* The password reset exists in part_003 and in the second program of part_004 only.
Offered == IF impl \in {"part_003", "part_004b"}
           THEN {"createUser", "updateUser", "deleteUser"} \cup ResetActions
           ELSE {"createUser", "updateUser", "deleteUser"}

(***************************************************************************)
(* C1-C10.                                                                  *)
(***************************************************************************)
\* C1: a request whose caller is neither admin nor superadmin (by no path of
\* role resolution) is answered 403 and has no effect on the stores.
C1_UnprivilegedCallerRejected ==
    (Handled /\ ~CallerPrivileged) => (resp.status = 403 /\ NoEffect)

\* C2: a createUser of a non-superadmin caller for an orgId other than the
\* caller's own is answered 403 and creates neither account nor profile.
C2_CreateOnlyInOwnOrg ==
    (Handled /\ req.action = "createUser" /\ ~CallerSuper /\ req.data.orgId # CallerOrg)
        => (resp.status = 403 /\ NoEffect)

\* C3: a non-superadmin caller asking for role superadmin on createUser, or on
\* updateUser of an existing profile, is answered 403; and no request of a
\* non-superadmin caller makes a stored role superadmin that was not before.
C3_NoSuperadminByNonSuperadmin ==
    /\ (/\ Handled /\ ~CallerSuper /\ req.data.role = "superadmin"
        /\ \/ req.action = "createUser"
           \/ req.action = "updateUser" /\ TargetDoc.exists)
           => resp.status = 403
    /\ (Handled /\ ~CallerSuper)
           => \A u \in UIDs : users[u].role = "superadmin" => pre.users[u].role = "superadmin"

\* C4: updateUser, deleteUser and password reset of a non-superadmin caller on
\* a target that is superadmin are answered 403 and leave the target's
\* profile and account as they were.
C4_SuperadminTargetProtected ==
    (/\ Handled /\ req.action \in Offered \ {"createUser"}
     /\ ~CallerSuper /\ TargetDoc.exists /\ TargetSuper)
        => (resp.status = 403 /\ TargetUntouched)

\* C5: updateUser and deleteUser of a non-superadmin caller of org A on a
\* target stored in org B # A are answered 403 and leave the target's
\* profile, account and claims as they were.
C5_OtherOrgTargetUntouched ==
    (/\ Handled /\ req.action \in {"updateUser", "deleteUser"}
     /\ ~CallerSuper /\ Truthy(CallerOrg)
     /\ TargetDoc.exists /\ Truthy(TargetDoc.orgId) /\ TargetDoc.orgId # CallerOrg)
        => (resp.status = 403 /\ TargetUntouched)

\* C6: every org-scoped action of a non-superadmin caller without an orgId
\* (on an existing target, for the actions that have one) is answered 403.
C6_CallerWithoutOrgDenied ==
    (/\ Handled /\ req.action \in Offered
     /\ ~CallerSuper /\ ~Truthy(CallerOrg)
     /\ req.action # "createUser" => TargetDoc.exists)
        => resp.status = 403

\* C7: an updateUser of a non-superadmin caller never changes the stored
\* orgId of its target, and when it succeeds the target's orgId is the
\* caller's own.
C7_NonSuperadminNeverMovesOrg ==
    (Handled /\ req.action = "updateUser" /\ ~CallerSuper /\ TargetDoc.exists)
        => /\ users[req.data.uid].orgId = TargetDoc.orgId
           /\ resp.status = 200 => users[req.data.uid].orgId = CallerOrg

\* C8: a createUser or updateUser that carries a departmentId, and is not
\* refused as unauthenticated, forbidden or not found, is answered 400 and
\* writes nothing when the department has no record or its orgId is not the
\* effective target org (the requested orgId, else the target's current one);
\* a record without an orgId does not pass.
EffectiveOrg ==
    IF req.data.orgId # Absent THEN req.data.orgId
    ELSE IF req.action = "updateUser" THEN TargetDoc.orgId ELSE Absent
C8_DepartmentMustBelongToOrg ==
    (/\ Handled /\ req.action \in {"createUser", "updateUser"}
     /\ Truthy(req.data.departmentId)
     /\ resp.status \notin {401, 403, 404}
     /\ \/ ~Departments[req.data.departmentId].exists
        \/ Departments[req.data.departmentId].orgId # EffectiveOrg)
        => (resp.status = 400 /\ NoEffect)

\* C9: every stored profile whose departmentId names a department of some org
\* has that org as its orgId (stated for the department records that carry
\* an orgId; the records without one are the matter of C8).
C9_ProfileDepartmentInProfileOrg ==
    \A u \in UIDs :
        (/\ users[u].exists /\ users[u].departmentId \in DeptIds
         /\ Truthy(Departments[users[u].departmentId].orgId))
            => Departments[users[u].departmentId].orgId = users[u].orgId

\* C10: a deleteUser of a superadmin caller for a uid that an earlier
\* deleteUser answered {ok:true} for, and that has neither profile nor
\* account any more, is answered {ok:true} again.
C10_DeleteTwiceOk ==
    (/\ Handled /\ req.action = "deleteUser" /\ CallerDoc.role = "superadmin"
     /\ req.data.uid \in deleted
     /\ ~TargetDoc.exists /\ ~pre.accounts[req.data.uid].exists)
        => resp.status = 200

(***************************************************************************)
(* C11-C20.                                                                 *)
(***************************************************************************)
\* The profile fields an updateUser may carry.
ProfileFields == {"email", "fullName", "role", "orgId", "departmentId"}
\* The stored profile of the target holds, for each field the request
\* carries, the value sent (null for an empty departmentId), and its other
\* fields are as they were.
FrameKept ==
    \A k \in ProfileFields :
        users[req.data.uid][k] =
            IF req.data[k] = Absent THEN TargetDoc[k]
            ELSE IF k = "departmentId" THEN Or(req.data[k], Null)
            ELSE req.data[k]

\* C11: a successful updateUser of an existing profile changes exactly the
\* fields the request carries, and sets the update timestamp.
C11_UpdateFrame ==
    (Handled /\ req.action = "updateUser" /\ resp.status = 200 /\ TargetDoc.exists)
        => (FrameKept /\ users[req.data.uid].updatedAt = ServerTimestamp)
\* The part of C11 that src/index.js keeps: the frame without the timestamp.
C11_UpdateFrameFields ==
    (Handled /\ req.action = "updateUser" /\ resp.status = 200 /\ TargetDoc.exists)
        => FrameKept

CommitsNeeded(n) == (n + BATCH_LIMIT - 1) \div BATCH_LIMIT
CascadeDone ==
    /\ Handled /\ req.action = "deleteUser" /\ resp.status = 200
    /\ Truthy(req.data.cascade)
\* C13: a deleteUser with cascade on a user with n schedule records commits
\* exactly ceil(n / 400) batches (none for n = 0), each of at least one and at
\* most 400 deletes, together deleting all n records.
C13_CascadeBatches ==
    CascadeDone =>
        /\ Len(resp.batches) = CommitsNeeded(pre.schedules[req.data.uid])
        /\ \A i \in 1..Len(resp.batches) : resp.batches[i] \in 1..BATCH_LIMIT
        /\ SumOf(resp.batches) = pre.schedules[req.data.uid]
        /\ schedules[req.data.uid] = 0
\* The part of C13 every entry point keeps: the records are gone afterwards.
C13_CascadeRemovesAll == CascadeDone => schedules[req.data.uid] = 0

\* C14: every request that reaches the endpoint is eventually answered: the
\* handler of the n-th request ends with a response sent, whatever the token,
\* the body and the failures of the provider.
C14_EveryRequestAnswered ==
    \A n \in 0..(MaxRequests - 1) :
        (stage = "running" /\ nreq = n)
            ~> (stage = "idle" /\ nreq = n + 1 /\ resp.status # 0)
\* The part of C14 that src/unnamed/part_003 keeps: a request whose action is
\* a string (or missing) is eventually answered.
C14_StringActionAnswered ==
    \A n \in 0..(MaxRequests - 1) :
        (stage = "running" /\ nreq = n /\ req.action # NotAString)
            ~> (stage = "idle" /\ nreq = n + 1 /\ resp.status # 0)

\* C15: a request without a bearer token in its Authorization header, and a
\* request whose token the provider rejects, are both answered 401 (never
\* 500) and change nothing.
C15_UnauthenticatedRejected ==
    (Finished /\ req.token # "ok") => (resp.status = 401 /\ NoEffect)
\* The parts of C15 that src/index.js keeps: a missing or malformed header is
\* answered 401, and no unauthenticated request changes anything.
C15_MissingTokenRejected ==
    (Finished /\ req.token = "none") => (resp.status = 401 /\ NoEffect)
C15_UnauthenticatedNoEffect ==
    (Finished /\ req.token # "ok") => (resp.status \in {401, 500} /\ NoEffect)

\* The request would succeed if the claims write did: its outcome on the
\* stores it found, the provider working.
Quiet(fresh) == PostAdmin(impl, pre, req, fresh)
ClaimsWriteFailed ==
    /\ Handled /\ req.fault = "claimsWrite"
    /\ \A fresh \in FreshFor(pre) : Quiet(fresh).resp.status = 200
\* C16: a failure of the custom-claims write in createUser, or in an
\* updateUser that carries role or orgId, never surfaces: the request is
\* answered 200 and the profiles are written exactly as when the write
\* succeeds.
C16_ClaimsFailureSwallowed ==
    ClaimsWriteFailed
        => /\ resp.status = 200
           /\ \E fresh \in FreshFor(pre) : users = Quiet(fresh).s.users
\* What src/index.js does instead: the failure is answered 500.
C16_ClaimsFailureSurfaces == ClaimsWriteFailed => resp.status = 500

\* A deleteUser got as far as the provider's delete call, which threw.
ProviderDeleteThrew(code) ==
    /\ Handled /\ req.action = "deleteUser" /\ resp.status \in {200, 500}
    /\ DeleteUserError(Env(pre, req), req.data.uid) = code
C17_NotFoundIsSuccess == ProviderDeleteThrew("auth/user-not-found") => resp.status = 200
C17_OtherFailureIs500 == ProviderDeleteThrew("auth/internal-error") => resp.status = 500
\* C17: in deleteUser the provider's 'user not found' counts as success (the
\* request is answered 200), and any other failure of the provider's delete
\* is answered 500.
C17_ProviderDeleteFailures == C17_NotFoundIsSuccess /\ C17_OtherFailureIs500

\* The caller's verified email is on the bootstrap list.
CallerListed ==
    /\ Handled
    /\ pre.accounts[req.caller].exists
    /\ LowerCase(pre.accounts[req.caller].email) \in SUPER_ADMIN_EMAILS
\* The role resolution of the entry point makes the caller superadmin.
CallerResolvedSuper ==
    CASE impl = "part_003" -> part003_requireAdmin(pre, req.caller).isSuper
      [] impl = "part_004a" -> part004a_assertAdminFromIdToken(pre, req).role = "superadmin"
      [] impl = "part_004b" -> part004b_requireAdmin(pre, req.caller).isSuper
      [] OTHER -> FALSE
\* C18: a caller whose verified email is on the bootstrap list is resolved as
\* superadmin, whatever the stored profile and the custom claims say.
C18_ListedEmailIsSuperadmin == CallerListed => CallerResolvedSuper
\* The part of C18 that the first program of part_004 keeps: a listed caller
\* is superadmin as long as neither the profile nor the claims carry a lower
\* role.
C18_ListedEmailNotDemoted ==
    (CallerListed /\ {CallerDoc.role, pre.claims[req.caller].role} \cap {"admin", "member"} = {})
        => CallerResolvedSuper

\* A password reset with uid and password, under either entry point that
\* offers it, by a caller the entry checks let through.
ResetAsked ==
    /\ Handled /\ req.action \in ResetActions /\ impl \in {"part_003", "part_004b"}
    /\ Truthy(req.data.uid) /\ Truthy(Or(req.data.password, req.data.newPassword))
\* C19: a password reset on a target without a stored profile changes the
\* provider account only for a superadmin caller, a non-superadmin caller is
\* answered 403 with the account untouched; and a non-superadmin resets the
\* password of a target with a profile only when the target's orgId is the
\* caller's own.
C19_ResetGuard ==
    /\ (ResetAsked /\ ~TargetDoc.exists /\ accounts[req.data.uid] # pre.accounts[req.data.uid])
            => CallerSuper
    /\ (ResetAsked /\ ~TargetDoc.exists /\ ~CallerSuper)
            => (resp.status = 403 /\ NoEffect)
    /\ (ResetAsked /\ TargetDoc.exists /\ ~CallerSuper /\ resp.status = 200)
            => (Truthy(CallerDoc.orgId) /\ TargetDoc.orgId = CallerDoc.orgId)
\* An admin asked for the reset of an account that has no profile, and was
\* refused.
C19_ResetWithoutProfileRefused ==
    /\ ResetAsked /\ ~TargetDoc.exists /\ pre.accounts[req.data.uid].exists
    /\ ~CallerSuper /\ CallerDoc.role = "admin" /\ impl = "part_003"
    /\ resp.status = 403

\* A createUser that lacks one of the required fields, sent by a caller the
\* identity and role resolution of src/index.js let through (a verified token,
\* a stored profile with a role).
IncompleteCreateAsked ==
    /\ Handled /\ req.action = "createUser" /\ impl = "index"
    /\ CallerDoc.exists /\ Truthy(CallerDoc.role)
    /\ \E k \in RequiredFields : ~Truthy(req.data[k])
\* C20: a createUser that lacks any of email, password, fullName, role, orgId
\* is answered 400 and creates no account, no profile and no claim, also when
\* an authorization rule would have denied the request.
C20_MissingFieldRejected == IncompleteCreateAsked => (resp.status = 400 /\ NoEffect)
\* An admin without the password in the data asks for a user in another org
\* than its own: the answer is 400, not the 403 of the org rule.
C20_MissingFieldBeforeOrgRule ==
    /\ IncompleteCreateAsked /\ resp.status = 400
    /\ CallerDoc.role = "admin" /\ CallerDoc.orgId = "o1"
    /\ req.data.orgId = "o2" /\ req.data.password = Absent

(***************************************************************************)
(* C21-C30.                                                                 *)
(***************************************************************************)
\* A complete createUser of a caller whose stored role is superadmin, without
\* departmentId: no rule refuses it, so the provider is asked for the account.
CreateReachesProvider ==
    /\ Handled /\ req.action = "createUser"
    /\ CallerDoc.exists /\ CallerDoc.role = "superadmin"
    /\ \A k \in RequiredFields : Truthy(req.data[k])
    /\ ~Truthy(req.data.departmentId)
\* The error auth.createUser threw for the last request.
CreateRejection == CreateUserError(Env(pre, req), req.data.email, req.data.password)
\* C21: when the provider refuses the account of a createUser, the answer is
\* 409 exactly when the email is in use, 400 when the password fails the
\* provider's policy, 500 for any other failure, and nothing is written.
C21_CreateRejectionKinds ==
    CreateReachesProvider
        => /\ CreateRejection = "auth/email-already-exists" <=> resp.status = 409
           /\ CreateRejection = "auth/invalid-password" => resp.status = 400
           /\ CreateRejection = "auth/internal-error" => resp.status = 500
           /\ CreateRejection # "" => NoEffect
\* The part of C21 every entry point keeps: a refused account leaves no
\* profile and no other trace.
C21_RejectedCreateWritesNothing ==
    (CreateReachesProvider /\ CreateRejection # "") => (resp.status \in {400, 409, 500} /\ NoEffect)

\* An updateUser of a caller whose stored role is admin or superadmin, on a
\* uid that has no stored profile.
UpdateWithoutProfile ==
    /\ Handled /\ req.action = "updateUser" /\ Truthy(req.data.uid)
    /\ CallerDoc.exists /\ CallerDoc.role \in {"admin", "superadmin"}
    /\ ~TargetDoc.exists
\* C22: an updateUser on a uid without a stored profile is answered 404,
\* issues no provider update and no claims write, and creates no profile.
C22_UpdateWithoutProfileNotFound == UpdateWithoutProfile => (resp.status = 404 /\ NoEffect)
\* What src/unnamed/part_003 does instead when it lets the request through:
\* it answers 200 and the uid has a profile afterwards.
C22_Part003CreatesProfile ==
    (UpdateWithoutProfile /\ impl = "part_003" /\ resp.status # 403)
        => (resp.status = 200 /\ users[req.data.uid].exists)

\* The place of a mutating call in the order provider account, profile, claims.
StepRank(call) ==
    CASE call \in {"auth.createUser", "auth.updateUser"} -> 1
      [] call = "users.set" -> 2
      [] call = "auth.setCustomUserClaims" -> 3
      [] OTHER -> 0
\* The mutating calls of the last request took place in that order.
CallsInOrder ==
    \A i, j \in 1..Len(resp.calls) : i < j => StepRank(resp.calls[i]) <= StepRank(resp.calls[j])
\* C23: in createUser and in updateUser the provider account write comes
\* first, then the profile write, then the claims write: no profile write
\* before the provider write, no claims write before the profile write.
C23_WriteOrder ==
    (Handled /\ req.action \in {"createUser", "updateUser"}) => CallsInOrder
\* The part of C23 that src/index.js keeps: the order within createUser.
C23_CreateWriteOrder == (Handled /\ req.action = "createUser") => CallsInOrder

\* The cascade of the last deleteUser lost a batch commit.
CascadeCommitFailed ==
    /\ Handled /\ req.action = "deleteUser" /\ req.fault = "batchCommit"
    /\ resp.status = 500 /\ pre.accounts[req.data.uid].exists
\* C24: in deleteUser the provider account is deleted last, after the profile
\* delete and after every cascade batch commit; when a cascade batch commit
\* fails the provider account is not deleted.
C24_ProviderDeleteLast ==
    /\ (Handled /\ req.action = "deleteUser")
            => \A i \in 1..Len(resp.calls) :
                  resp.calls[i] = "auth.deleteUser" => i = Len(resp.calls)
    /\ CascadeCommitFailed => accounts[req.data.uid].exists
\* What src/unnamed/part_003 does instead: a lost batch commit finds the
\* provider account already deleted.
C24_Part003DeletesAccountFirst ==
    (CascadeCommitFailed /\ impl = "part_003") => ~accounts[req.data.uid].exists

\* A successful updateUser of a target that has a profile and an account.
UpdateDone ==
    /\ Handled /\ req.action = "updateUser" /\ resp.status = 200
    /\ TargetDoc.exists /\ pre.accounts[req.data.uid].exists
\* C25: an updateUser that carries the key email, fullName or password, with
\* whatever value (null and the empty string too), issues a provider account
\* update, and afterwards the profile and the provider account agree on the
\* email and on the name that were supplied.
C25_SuppliedKeyReachesProvider ==
    UpdateDone
        => /\ (\E k \in {"email", "fullName", "password"} : req.data[k] # Absent)
                  => \E i \in 1..Len(resp.calls) : resp.calls[i] = "auth.updateUser"
           /\ req.data.email # Absent
                  => accounts[req.data.uid].email = users[req.data.uid].email
           /\ req.data.fullName # Absent
                  => accounts[req.data.uid].displayName = users[req.data.uid].fullName
\* The part of C25 that src/index.js keeps: a truthy fullName reaches both
\* the profile and the provider account.
C25_TruthyNameReachesProvider ==
    (UpdateDone /\ Truthy(req.data.fullName))
        => /\ accounts[req.data.uid].displayName = req.data.fullName
           /\ users[req.data.uid].fullName = req.data.fullName

\* C26: a request answered 401, 403, 400 or 404 leaves the profiles, the
\* provider accounts, the claims and the schedule records as they were, and
\* has issued no mutating call.
C26_EarlyErrorNoEffect == (Finished /\ resp.status \in EarlyErrors) => NoEffect
\* An admin's updateUser that names another org than its own was refused
\* by src/unnamed/part_003.
C26_UpdateRefused ==
    /\ Handled /\ impl = "part_003" /\ req.action = "updateUser"
    /\ resp.status = 403 /\ CallerDoc.role = "admin" /\ Truthy(req.data.orgId)

\* C27: when a handler of a non-superadmin's updateUser or deleteUser makes its
\* writes, the profile it writes to or deletes is, at that moment, in the
\* caller's org, whatever other request ran since its org check.
C27_WriteInOwnOrg ==
    [][\A f \in inflight :
          (/\ f \notin inflight' /\ f.actor.role # "superadmin"
           /\ users[f.r.data.uid].exists
           /\ \E i \in 1..Len(resp'.calls) : resp'.calls[i] \in {"users.set", "users.delete"})
              => users[f.r.data.uid].orgId = f.actor.orgId]_vars
\* The same without concurrency, which src/index.js keeps: a successful
\* updateUser or deleteUser of a non-superadmin found its target in the
\* caller's org.
C27_SequentialWriteInOwnOrg ==
    (Handled /\ req.action \in {"updateUser", "deleteUser"} /\ resp.status = 200
        /\ CallerDoc.role # "superadmin")
        => (TargetDoc.exists /\ TargetDoc.orgId = CallerDoc.orgId)

\* The claims of uid carry the role and the orgId of its stored profile.
ClaimsMirrorProfile(uid) ==
    /\ claims[uid].role = users[uid].role
    /\ claims[uid].orgId = users[uid].orgId
\* C28: after a successful createUser, and after a successful updateUser that
\* supplies role or orgId, the custom claims of the uid hold the role and the
\* orgId of its stored profile: none is dropped, none is left at an old value.
C28_ClaimsMirrorProfile ==
    /\ (Handled /\ req.action = "createUser" /\ resp.status = 200)
            => ClaimsMirrorProfile(resp.uid)
    /\ (UpdateDone /\ (req.data.role # Absent \/ req.data.orgId # Absent))
            => ClaimsMirrorProfile(req.data.uid)
\* The part of C28 that the first program of part_004 keeps: the claims
\* after createUser.
C28_ClaimsMirrorProfileAfterCreate ==
    (Handled /\ req.action = "createUser" /\ resp.status = 200) => ClaimsMirrorProfile(resp.uid)

\* uid has a provider account and no profile in the stores s.
Orphan(s, uid) == s.accounts[uid].exists /\ ~s.users[uid].exists
\* A deleteUser, the provider and the store working, by a caller whose stored
\* role is admin or superadmin, on a uid whose profile is gone and whose
\* account is still there.
DeleteRetried ==
    /\ Handled /\ req.action = "deleteUser" /\ req.fault = "none"
    /\ CallerDoc.exists /\ CallerDoc.role \in {"admin", "superadmin"}
    /\ Truthy(req.data.uid) /\ Orphan(pre, req.data.uid)
\* The last request was a deleteUser of another uid than the caller's own that
\* failed after the profile delete: the profile is gone, the account is not.
DeleteFailedHalfway ==
    /\ Handled /\ req.action = "deleteUser" /\ resp.status = 500
    /\ req.caller # req.data.uid
    /\ pre.users[req.data.uid].exists /\ Orphan(Cur, req.data.uid)
\* C29: when a deleteUser failed after the profile delete, the same deleteUser
\* sent again by the same caller, the provider and the store working, runs to
\* completion and removes the provider account.
C29_RetriedDeleteRemovesAccount ==
    [][(/\ DeleteFailedHalfway
        /\ req'.action = "deleteUser" /\ req'.token = "ok" /\ req'.fault = "none"
        /\ req'.caller = req.caller /\ req'.data.uid = req.data.uid)
          => (resp'.status = 200 /\ ~accounts'[req.data.uid].exists)]_vars
\* Under src/index.js an existing account loses its profile only through a
\* deleteUser that failed after the profile delete.
C29_OrphanFromFailedDelete ==
    \A u \in UIDs :
        (Orphan(Cur, u) /\ ~Orphan(pre, u) /\ pre.accounts[u].exists)
            => (req.action = "deleteUser" /\ req.data.uid = u /\ resp.status = 500
                /\ pre.users[u].exists)
\* What src/index.js answers to the retry.
C29_RetriedDeleteNotFound == DeleteRetried => (resp.status = 404 /\ NoEffect)

\* The accounts the last request created.
CreatedAccounts == {u \in UIDs : accounts[u].exists /\ ~pre.accounts[u].exists}
\* C30: once a createUser has been answered, with success or with an error,
\* every provider account it created has a stored profile under the same uid.
C30_NoAccountWithoutProfile ==
    (Handled /\ req.action = "createUser") => \A u \in CreatedAccounts : users[u].exists
\* The part of C30 that src/index.js keeps: a failure of the claims write
\* leaves the account with its profile.
C30_ClaimsFailureKeepsProfile ==
    (Handled /\ req.action = "createUser" /\ req.fault = "claimsWrite")
        => \A u \in CreatedAccounts : users[u].exists

====
